---- MODULE Spec2Model ----
(***************************************************************************)
(* Model of migrate.py: the Airtable -> Postgres migration pipeline.       *)
(* The program is sequential.  migrate() calls, per configured table,      *)
(* create_table_if_not_exists, get_airtable_data, transform_data and       *)
(* insert_into_postgres.  Each function is modelled statement by statement *)
(* (pc is the position inside the running function, mpc the position of    *)
(* migrate), the target store as a committed state `db` plus the working   *)
(* state `tx` of the open transaction, the source store as a chain of      *)
(* pages served by cursor.                                                 *)
(***************************************************************************)
EXTENDS Integers, Sequences, FiniteSets, TLC

\* ------------------------------------------------------------------ bounds
MaxCalls == 2       \* top-level invocations (runs of migrate, or direct calls)
MaxPages == 3       \* pages of a source table
MaxNameLen == 3     \* length of the display names fed to to_snake_case
MaxRecs == 2        \* records in a list handed to a directly called step
MaxRequests == MaxPages + 2   \* cap on the requests of one fetch (a fetch may loop)

\* ------------------------------------------------------------ Python values
\* Python's None, where it stands among strings (an offset, a field value).
None == "<None>"

\* `if x:` for a string-or-None value (line 44).
Truthy(x) == x # None /\ x # ""

\* -------------------------------------------------------------- to_snake_case
UpperChars == <<"A", "B", "C", "D", "E", "F", "G", "H", "I", "J", "K", "L", "M",
                "N", "O", "P", "Q", "R", "S", "T", "U", "V", "W", "X", "Y", "Z">>
LowerChars == <<"a", "b", "c", "d", "e", "f", "g", "h", "i", "j", "k", "l", "m",
                "n", "o", "p", "q", "r", "s", "t", "u", "v", "w", "x", "y", "z">>

IsUpper(c) == \E i \in DOMAIN UpperChars : UpperChars[i] = c

\* str.lower() on one character.
LowerChar(c) ==
    IF IsUpper(c)
    THEN LowerChars[CHOOSE i \in DOMAIN UpperChars : UpperChars[i] = c]
    ELSE c

\* name.replace(' ', '')  (line 34)
RemoveSpaces(name) == SelectSeq(name, LAMBDA c : c # " ")

\* re.sub(r'(?<!^)(?=[A-Z])', '_', s): an underscore before every uppercase
\* letter that is not at the start of the string (line 35).
RECURSIVE InsertUnderscores(_, _)
InsertUnderscores(s, i) ==
    IF i > Len(s) THEN <<>>
    ELSE (IF i > 1 /\ IsUpper(s[i]) THEN <<"_", s[i]>> ELSE <<s[i]>>)
         \o InsertUnderscores(s, i + 1)

\* str.lower() (line 35)
\* LowerCase without the lowering: the inserted underscores stay before
\* uppercase letters, which a second pass separates again.
LowerCaseKept(s) == s

LowerCase(s) == [i \in DOMAIN s |-> LowerChar(s[i])]

to_snake_case(name) == LowerCase(InsertUnderscores(RemoveSpaces(name), 1))

\* -------------------------------------------------------------- configuration
\* Table names as they appear in config.yaml (sequences of characters).
TblA == <<"A", "b">>
TblB == <<"C", " ", "D">>
TblC == <<"C", "D">>
TblZ == <<"I", "D">>      \* never configured

Names == {TblA, TblB, TblC, TblZ}

\* A mapping is the ordered dict  airtable field -> {name, type}.
MapAB == << <<"f1", [name |-> "c1", type |-> "text"]>>,
            <<"f2", [name |-> "c2", type |-> "text"]>> >>
MapB == << <<"f2", [name |-> "c2", type |-> "text"]>> >>
MapEmpty == <<>>

\* config['tables']: the ordered dict  table name -> mapping.
CfgPlain == << [name |-> TblA, mapping |-> MapAB], [name |-> TblB, mapping |-> MapB] >>
CfgEmpty == << [name |-> TblB, mapping |-> MapB], [name |-> TblA, mapping |-> MapEmpty] >>
CfgClash == << [name |-> TblB, mapping |-> MapB], [name |-> TblC, mapping |-> MapAB] >>

Configs == {CfgPlain, CfgEmpty, CfgClash}

\* config['tables'].get(table_name): the set holding the mapping, or the
\* empty set for None (lines 57, 71, 95).
get(cfg, table_name) ==
    {cfg[i].mapping : i \in {j \in DOMAIN cfg : cfg[j].name = table_name}}

\* `not mapping`: None or an empty dict (lines 58, 72, 96).
NotMapping(m) == m = {} \/ m = {MapEmpty}

TheMapping(m) == CHOOSE x \in m : TRUE

\* mapping.values(): the column descriptors in declared order (lines 75, 99, 114).
Values(mapping) == [i \in DOMAIN mapping |-> mapping[i][2]]

\* The column list built in the reverse of the declared order.
ColumnNamesReversed(mapping) ==
    [i \in DOMAIN mapping |-> mapping[Len(mapping) + 1 - i][2].name]

\* [postgres_field['name'] for postgres_field in mapping.values()] (line 99)
ColumnNames(mapping) == [i \in DOMAIN mapping |-> mapping[i][2].name]

\* ------------------------------------------------------------- source store
RawA == [fields |-> [f1 |-> "x", f2 |-> "y"]]
RawB == [fields |-> [f2 |-> "z"]]           \* f1 absent

RawOf(i) == IF i % 2 = 1 THEN RawA ELSE RawB

\* The cursor a page hands out to reach the page after it.
Cursor(i) == IF i = 1 THEN "c1" ELSE IF i = 2 THEN "c2" ELSE IF i = 3 THEN "c3" ELSE "c4"

\* A response body: 'records', and 'offset' unless it is the last page.
\* A page in `falsy` carries an offset field that is present but empty.
Page(i, n, falsy) ==
    IF i = n THEN [records |-> <<RawOf(i)>>]
    ELSE [records |-> <<RawOf(i)>>, offset |-> IF i \in falsy THEN "" ELSE Cursor(i)]

Chain(n, falsy) == [i \in 1..n |-> Page(i, n, falsy)]

EmptyChain == << [records |-> <<>>] >>

\* The page chains a source table may consist of.
Chains ==
    {EmptyChain} \cup
    UNION {{Chain(n, falsy) : falsy \in SUBSET (1..(n - 1))} : n \in 1..MaxPages}

\* The offset is never sent.
ParamsNoCursor(offset) == {}

\* params as built on lines 43-45: {} or {'offset': offset}.
Params(offset) == IF Truthy(offset) THEN {<<"offset", offset>>} ELSE {}

\* The page the source returns for a request: the first page when the request
\* has no offset parameter, else the page after the one that gave the cursor.
Serve(chain, params) ==
    IF params = {} THEN chain[1]
    ELSE LET c == (CHOOSE p \in params : TRUE)[2]
             i == CHOOSE k \in DOMAIN chain :
                      "offset" \in DOMAIN chain[k] /\ chain[k].offset = c
         IN chain[i + 1]

\* record['fields'][airtable_field] with a fallback to an empty string.
FieldGetEmptyString(record, field) ==
    IF field \in DOMAIN record.fields THEN record.fields[field] ELSE ""

\* record['fields'].get(airtable_field) (line 64)
FieldGet(record, field) ==
    IF field \in DOMAIN record.fields THEN record.fields[field] ELSE None

\* ------------------------------------------------------------- Python dict
\* d[k] = v on an insertion-ordered dict, kept as a sequence of <<key, value>>.
DictSet(d, k, v) ==
    IF \E i \in DOMAIN d : d[i][1] = k
    THEN [i \in DOMAIN d |-> IF d[i][1] = k THEN <<k, v>> ELSE d[i]]
    ELSE Append(d, <<k, v>>)

\* tuple(record.values()) (line 120)
DictValues(d) == [i \in DOMAIN d |-> d[i][2]]

DictKeys(d) == [i \in DOMAIN d |-> d[i][1]]

\* The body of the loop on lines 62-65 for one record.
RECURSIVE TransformOne(_, _, _)
TransformOne(mapping, record, i) ==
    IF i = 0 THEN <<>>
    ELSE DictSet(TransformOne(mapping, record, i - 1),
                 mapping[i][2].name, FieldGet(record, mapping[i][1]))

\* Lines 61-66.
TransformAll(mapping, recs) ==
    [i \in DOMAIN recs |-> TransformOne(mapping, recs[i], Len(mapping))]

\* ------------------------------------------------------------- target store
\* The physical table identifiers.
Idents == {to_snake_case(n) : n \in Names}

NoTable == [exists |-> FALSE, cols |-> <<>>, rows |-> <<>>]

\* A store without tables and without the uuid-ossp extension.
EmptyDb == [ext |-> FALSE, tables |-> [t \in Idents |-> NoTable]]

\* CREATE EXTENSION IF NOT EXISTS "uuid-ossp" (line 81)
CreateExtension(t) == [t EXCEPT !.ext = TRUE]

\* CREATE TABLE IF NOT EXISTS <ident> (id ..., <columns>) (lines 76, 82)
CreateTableIfNotExists(t, ident, cols) ==
    IF t.tables[ident].exists THEN t
    ELSE [t EXCEPT !.tables[ident] = [exists |-> TRUE, cols |-> cols, rows |-> <<>>]]

\* DROP TABLE IF EXISTS <ident> (lines 110-111)
DropTableIfExists(t, ident) == [t EXCEPT !.tables[ident] = NoTable]

\* CREATE TABLE <ident> (id ..., <columns>) fails when the table exists (line 115).
CanCreateTable(t, ident) == ~t.tables[ident].exists

CreateTable(t, ident, cols) ==
    [t EXCEPT !.tables[ident] = [exists |-> TRUE, cols |-> cols, rows |-> <<>>]]

\* INSERT INTO <ident> (<columns>) VALUES (%s, ...) with a tuple of values:
\* needs the table, each listed column in it, and as many values as
\* placeholders (lines 101-102, 120).
CanInsert(t, ident, columns, values) ==
    /\ t.tables[ident].exists
    /\ \A j \in DOMAIN columns :
           \E i \in DOMAIN t.tables[ident].cols : t.tables[ident].cols[i].name = columns[j]
    /\ Len(values) = Len(columns)

\* The stored row: under each column of the table the value bound to that
\* column's position in the column list, NULL for a column not listed.  `by`
\* is the number of the load that inserted the row (it stands for the
\* generated primary key, which tells rows of different loads apart).
RowOf(tcols, columns, values, by) ==
    [vals |-> [i \in DOMAIN tcols |->
                  IF \E j \in DOMAIN columns : columns[j] = tcols[i].name
                  THEN values[CHOOSE j \in DOMAIN columns : columns[j] = tcols[i].name]
                  ELSE None],
     by |-> by]

InsertRow(t, ident, columns, values, by) ==
    [t EXCEPT !.tables[ident].rows =
        Append(@, RowOf(t.tables[ident].cols, columns, values, by))]

\* -------------------------------------------------------------------- state
VARIABLES
    config,      \* config['tables'], read once at start (lines 12-13)
    db,          \* the target store's committed state
    tx,          \* the state seen inside the open transaction (db when none)
    openConns,   \* number of open database connections
    pc,          \* position inside the running pipeline function
    mpc,         \* position of migrate (line 131-139); "none" when steps are called directly
    ti,          \* migrate: index of the current table in config['tables'].keys()
    calls,       \* top-level invocations so far
    fn,          \* the pipeline function running or last run
    table_name,  \* its argument table_name
    records,     \* its argument / local `records`
    drop,        \* its argument drop_table_before_insert
    ri,          \* insert_into_postgres: index of the loop on line 119
    offset,      \* get_airtable_data: local `offset`
    pages,       \* the page chain the source serves for the table being fetched
    requests,    \* the params of the requests issued by the current fetch, in order
    ret,         \* the value returned by the last function
    exc,         \* the exception being raised, "none" when none
    stmts,       \* what the current function did on its connection, in order
    steps,       \* the steps migrate started in the current run, in order
    touched,     \* a request or a database connection was attempted in this invocation
    loadNo,      \* number of insert_into_postgres calls so far
    dbPre,       \* db when the current pipeline function was called
    dbDone,      \* db when migrate last finished a table (or started the run)
    prev,        \* the previous direct call and how it ended
    name,        \* to_snake_case called on its own: the argument
    snake,       \* to_snake_case(name), once computed
    twice        \* to_snake_case(snake), once computed

vars == <<config, db, tx, openConns, pc, mpc, ti, calls, fn, table_name, records,
          drop, ri, offset, pages, requests, ret, exc, stmts, steps, touched,
          loadNo, dbPre, dbDone, prev, name, snake, twice>>

NoCall == [fn |-> "none", table_name |-> <<>>, drop |-> FALSE, exc |-> "none"]

InitCommon ==
    /\ config \in Configs
    /\ db = EmptyDb
    /\ tx = EmptyDb
    /\ openConns = 0
    /\ pc = "idle"
    /\ ti = 1
    /\ calls = 0
    /\ fn = "none"
    /\ table_name = <<>>
    /\ records = <<>>
    /\ drop = FALSE
    /\ ri = 1
    /\ offset = None
    /\ pages = EmptyChain
    /\ requests = <<>>
    /\ ret = <<>>
    /\ exc = "none"
    /\ stmts = <<>>
    /\ steps = <<>>
    /\ touched = FALSE
    /\ loadNo = 0
    /\ dbPre = EmptyDb
    /\ dbDone = EmptyDb
    /\ prev = NoCall

\* ------------------------------------------------------- connection handling
\* psycopg2.connect(**HASURA_DB); conn.cursor() (lines 77-78, 104-105).  The
\* call is outside the try block: when it fails nothing is open and the
\* error leaves the function at once.
Connect(ok, next) ==
    /\ touched' = TRUE
    /\ stmts' = Append(stmts, <<"connect", ok>>)
    /\ openConns' = IF ok THEN openConns + 1 ELSE openConns
    /\ tx' = db
    /\ db' = db
    /\ pc' = IF ok THEN next ELSE "raised"
    /\ exc' = IF ok THEN exc ELSE "OperationalError"

\* A connection in autocommit mode: every statement that succeeds is committed
\* at once.
ExecuteAutocommit(kind, ok, result, okpc, failpc) ==
    /\ stmts' = Append(stmts, <<kind, ok>>)
    /\ tx' = IF ok THEN result ELSE tx
    /\ db' = IF ok THEN result ELSE db
    /\ openConns' = openConns
    /\ pc' = IF ok THEN okpc ELSE failpc
    /\ exc' = IF ok THEN exc ELSE "DatabaseError"

\* cur.execute(...) inside the try block: on failure control goes to the
\* except clause (lines 81-82, 111, 116, 120).
Execute(kind, ok, result, okpc, failpc) ==
    /\ stmts' = Append(stmts, <<kind, ok>>)
    /\ tx' = IF ok THEN result ELSE tx
    /\ db' = db
    /\ openConns' = openConns
    /\ pc' = IF ok THEN okpc ELSE failpc
    /\ exc' = IF ok THEN exc ELSE "DatabaseError"

\* conn.commit() (lines 83, 122)
Commit(ok, okpc, failpc) ==
    /\ stmts' = Append(stmts, <<"commit", ok>>)
    /\ db' = IF ok THEN tx ELSE db
    /\ tx' = tx
    /\ openConns' = openConns
    /\ pc' = IF ok THEN okpc ELSE failpc
    /\ exc' = IF ok THEN exc ELSE "DatabaseError"

\* Without the finally clause: the exception leaves with the connection open.
RollbackWithoutClose(next) ==
    /\ stmts' = Append(stmts, <<"rollback", TRUE>>)
    /\ tx' = db
    /\ db' = db
    /\ openConns' = openConns
    /\ exc' = exc
    /\ pc' = "raised"

\* except Exception as e: conn.rollback(); raise e (lines 84-86, 123-125)
Rollback(next) ==
    /\ stmts' = Append(stmts, <<"rollback", TRUE>>)
    /\ tx' = db
    /\ db' = db
    /\ openConns' = openConns
    /\ exc' = exc
    /\ pc' = next

\* finally: cur.close(); conn.close(), then the function returns or the
\* exception goes on to the caller (lines 87-89, 126-128).
Close ==
    /\ stmts' = Append(stmts, <<"close", TRUE>>)
    /\ openConns' = openConns - 1
    /\ tx' = db
    /\ db' = db
    /\ exc' = exc
    /\ pc' = IF exc = "none" THEN "returned" ELSE "raised"

\* ------------------------------------------------ create_table_if_not_exists
\* Lines 70-76: the mapping check and the pure construction of the query.
c_check ==
    /\ pc = "c_check"
    /\ IF NotMapping(get(config, table_name))
       THEN pc' = "raised" /\ exc' = "ValueError"
       ELSE pc' = "c_connect" /\ exc' = exc
    /\ UNCHANGED <<config, db, tx, openConns, mpc, ti, calls, fn, table_name, records,
                   drop, ri, offset, pages, requests, ret, stmts, steps, touched,
                   loadNo, dbPre, dbDone, prev, name, snake, twice>>

c_connect ==
    /\ pc = "c_connect"
    /\ \E ok \in BOOLEAN : Connect(ok, "c_ext")
    /\ UNCHANGED <<config, mpc, ti, calls, fn, table_name, records,
                   drop, ri, offset, pages, requests, ret, steps,
                   loadNo, dbPre, dbDone, prev, name, snake, twice>>

c_ext ==
    /\ pc = "c_ext"
    /\ \E ok \in BOOLEAN :
           Execute("extension", ok, CreateExtension(tx), "c_create", "c_rollback")
    /\ UNCHANGED <<config, mpc, ti, calls, fn, table_name, records,
                   drop, ri, offset, pages, requests, ret, steps, touched,
                   loadNo, dbPre, dbDone, prev, name, snake, twice>>

\* Without IF NOT EXISTS: the statement fails on a table that exists.
c_create_plain ==
    /\ pc = "c_create"
    /\ \E ok \in BOOLEAN :
           Execute("create_if_not_exists",
                   ok /\ CanCreateTable(tx, to_snake_case(table_name)),
                   CreateTable(tx, to_snake_case(table_name),
                               Values(TheMapping(get(config, table_name)))),
                   "c_commit", "c_rollback")
    /\ UNCHANGED <<config, mpc, ti, calls, fn, table_name, records,
                   drop, ri, offset, pages, requests, ret, steps, touched,
                   loadNo, dbPre, dbDone, prev, name, snake, twice>>

\* The schema step recreates the table: it drops it before extraction.
c_create_recreating ==
    /\ pc = "c_create"
    /\ \E ok \in BOOLEAN :
           Execute("drop", ok,
                   CreateTable(DropTableIfExists(tx, to_snake_case(table_name)),
                               to_snake_case(table_name),
                               Values(TheMapping(get(config, table_name)))),
                   "c_commit", "c_rollback")
    /\ UNCHANGED <<config, mpc, ti, calls, fn, table_name, records,
                   drop, ri, offset, pages, requests, ret, steps, touched,
                   loadNo, dbPre, dbDone, prev, name, snake, twice>>

\* Lines 81-82 (the query of line 76).
c_create ==
    /\ pc = "c_create"
    /\ \E ok \in BOOLEAN :
           Execute("create_if_not_exists", ok,
                   CreateTableIfNotExists(tx, to_snake_case(table_name),
                                          Values(TheMapping(get(config, table_name)))),
                   "c_commit", "c_rollback")
    /\ UNCHANGED <<config, mpc, ti, calls, fn, table_name, records,
                   drop, ri, offset, pages, requests, ret, steps, touched,
                   loadNo, dbPre, dbDone, prev, name, snake, twice>>

c_commit ==
    /\ pc = "c_commit"
    /\ \E ok \in BOOLEAN : Commit(ok, "c_close", "c_rollback")
    /\ UNCHANGED <<config, mpc, ti, calls, fn, table_name, records,
                   drop, ri, offset, pages, requests, ret, steps, touched,
                   loadNo, dbPre, dbDone, prev, name, snake, twice>>

c_rollback ==
    /\ pc = "c_rollback"
    /\ Rollback("c_close")
    /\ UNCHANGED <<config, mpc, ti, calls, fn, table_name, records,
                   drop, ri, offset, pages, requests, ret, steps, touched,
                   loadNo, dbPre, dbDone, prev, name, snake, twice>>

c_close ==
    /\ pc = "c_close"
    /\ Close
    /\ UNCHANGED <<config, mpc, ti, calls, fn, table_name, records,
                   drop, ri, offset, pages, requests, ret, steps, touched,
                   loadNo, dbPre, dbDone, prev, name, snake, twice>>

\* ------------------------------------------------------- insert_into_postgres
\* Lines 93-102: the mapping check and the pure construction of the query.
i_check ==
    /\ pc = "i_check"
    /\ loadNo' = loadNo + 1
    /\ IF NotMapping(get(config, table_name))
       THEN pc' = "raised" /\ exc' = "ValueError"
       ELSE pc' = "i_connect" /\ exc' = exc
    /\ UNCHANGED <<config, db, tx, openConns, mpc, ti, calls, fn, table_name, records,
                   drop, ri, offset, pages, requests, ret, stmts, steps, touched,
                   dbPre, dbDone, prev, name, snake, twice>>

\* Where the loop on line 119 goes: its body, or past it when exhausted.
LoopPc(i, recs) == IF i <= Len(recs) THEN "i_insert" ELSE "i_commit"

\* The flag is ignored: the load only appends.
AfterConnectIgnoresDrop(d, recs) == LoopPc(1, recs)

\* Line 107: the branch on drop_table_before_insert.
AfterConnect(d, recs) == IF d THEN "i_drop" ELSE LoopPc(1, recs)

i_connect ==
    /\ pc = "i_connect"
    /\ \E ok \in BOOLEAN : Connect(ok, AfterConnect(drop, records))
    /\ UNCHANGED <<config, mpc, ti, calls, fn, table_name, records,
                   drop, ri, offset, pages, requests, ret, steps,
                   loadNo, dbPre, dbDone, prev, name, snake, twice>>

\* The drop runs as its own committed operation, outside the load's transaction.
i_drop_committed ==
    /\ pc = "i_drop"
    /\ stmts' = Append(stmts, <<"drop", TRUE>>)
    /\ tx' = DropTableIfExists(tx, to_snake_case(table_name))
    /\ db' = DropTableIfExists(db, to_snake_case(table_name))
    /\ pc' = "i_create"
    /\ UNCHANGED <<config, openConns, mpc, ti, calls, fn, table_name, records,
                   drop, ri, offset, pages, requests, ret, exc, steps, touched,
                   loadNo, dbPre, dbDone, prev, name, snake, twice>>

\* Lines 108-111.
i_drop ==
    /\ pc = "i_drop"
    /\ \E ok \in BOOLEAN :
           Execute("drop", ok, DropTableIfExists(tx, to_snake_case(table_name)),
                   "i_create", "i_rollback")
    /\ UNCHANGED <<config, mpc, ti, calls, fn, table_name, records,
                   drop, ri, offset, pages, requests, ret, steps, touched,
                   loadNo, dbPre, dbDone, prev, name, snake, twice>>

\* Lines 113-116.
i_create ==
    /\ pc = "i_create"
    /\ \E ok \in BOOLEAN :
           Execute("create", ok /\ CanCreateTable(tx, to_snake_case(table_name)),
                   CreateTable(tx, to_snake_case(table_name),
                               Values(TheMapping(get(config, table_name)))),
                   LoopPc(1, records), "i_rollback")
    /\ UNCHANGED <<config, mpc, ti, calls, fn, table_name, records,
                   drop, ri, offset, pages, requests, ret, steps, touched,
                   loadNo, dbPre, dbDone, prev, name, snake, twice>>

\* Every insert is committed as soon as it has succeeded.
i_insert_commit_each ==
    /\ pc = "i_insert"
    /\ LET ident == to_snake_case(table_name)
           columns == ColumnNames(TheMapping(get(config, table_name)))
           values == DictValues(records[ri])
           result == InsertRow(tx, ident, columns, values, loadNo)
       IN \E ok \in BOOLEAN :
              LET good == ok /\ CanInsert(tx, ident, columns, values)
              IN /\ stmts' = IF good
                             THEN stmts \o << <<"insert", TRUE>>, <<"commit", TRUE>> >>
                             ELSE Append(stmts, <<"insert", FALSE>>)
                 /\ tx' = IF good THEN result ELSE tx
                 /\ db' = IF good THEN result ELSE db
                 /\ openConns' = openConns
                 /\ pc' = IF good THEN LoopPc(ri + 1, records) ELSE "i_rollback"
                 /\ exc' = IF good THEN exc ELSE "DatabaseError"
    /\ ri' = ri + 1
    /\ UNCHANGED <<config, mpc, ti, calls, fn, table_name, records,
                   drop, offset, pages, requests, ret, steps, touched,
                   loadNo, dbPre, dbDone, prev, name, snake, twice>>

\* Lines 119-120: one iteration of the loop.
i_insert ==
    /\ pc = "i_insert"
    /\ LET ident == to_snake_case(table_name)
           columns == ColumnNames(TheMapping(get(config, table_name)))
           values == DictValues(records[ri])
       IN \E ok \in BOOLEAN :
              Execute("insert", ok /\ CanInsert(tx, ident, columns, values),
                      InsertRow(tx, ident, columns, values, loadNo),
                      LoopPc(ri + 1, records), "i_rollback")
    /\ ri' = ri + 1
    /\ UNCHANGED <<config, mpc, ti, calls, fn, table_name, records,
                   drop, offset, pages, requests, ret, steps, touched,
                   loadNo, dbPre, dbDone, prev, name, snake, twice>>

i_commit ==
    /\ pc = "i_commit"
    /\ \E ok \in BOOLEAN : Commit(ok, "i_close", "i_rollback")
    /\ UNCHANGED <<config, mpc, ti, calls, fn, table_name, records,
                   drop, ri, offset, pages, requests, ret, steps, touched,
                   loadNo, dbPre, dbDone, prev, name, snake, twice>>

i_rollback ==
    /\ pc = "i_rollback"
    /\ Rollback("i_close")
    /\ UNCHANGED <<config, mpc, ti, calls, fn, table_name, records,
                   drop, ri, offset, pages, requests, ret, steps, touched,
                   loadNo, dbPre, dbDone, prev, name, snake, twice>>

i_close ==
    /\ pc = "i_close"
    /\ Close
    /\ UNCHANGED <<config, mpc, ti, calls, fn, table_name, records,
                   drop, ri, offset, pages, requests, ret, steps, touched,
                   loadNo, dbPre, dbDone, prev, name, snake, twice>>

\* ---------------------------------------------------------- get_airtable_data
\* Lines 39-41; the source holds some page chain for the table.
g_start ==
    /\ pc = "g_start"
    /\ records' = <<>>
    /\ offset' = None
    /\ pages' \in Chains
    /\ pc' = "g_request"
    /\ UNCHANGED <<config, db, tx, openConns, mpc, ti, calls, fn, table_name,
                   drop, ri, requests, ret, exc, stmts, steps, touched,
                   loadNo, dbPre, dbDone, prev, name, snake, twice>>

\* Lines 42-52: one iteration of the loop; a request that fails (or a body
\* that is not the expected JSON) raises out of the function.
g_request ==
    /\ pc = "g_request"
    /\ Len(requests) < MaxRequests
    /\ touched' = TRUE
    /\ requests' = Append(requests, Params(offset))
    /\ \E ok \in BOOLEAN :
          IF ok
          THEN LET data == Serve(pages, Params(offset))
                   all == records \o data.records
               IN /\ records' = all
                  /\ exc' = exc
                  /\ IF "offset" \notin DOMAIN data
                     THEN pc' = "returned" /\ ret' = all /\ offset' = offset
                     ELSE pc' = "g_request" /\ ret' = ret /\ offset' = data.offset
          ELSE /\ pc' = "raised"
               /\ exc' = "RequestException"
               /\ UNCHANGED <<records, ret, offset>>
    /\ UNCHANGED <<config, db, tx, openConns, mpc, ti, calls, fn, table_name,
                   drop, ri, pages, stmts, steps,
                   loadNo, dbPre, dbDone, prev, name, snake, twice>>

\* -------------------------------------------------------------- transform_data
\* Lines 56-66.
t_transform ==
    /\ pc = "t_transform"
    /\ IF NotMapping(get(config, table_name))
       THEN pc' = "raised" /\ exc' = "ValueError" /\ ret' = ret
       ELSE /\ pc' = "returned"
            /\ exc' = exc
            /\ ret' = TransformAll(TheMapping(get(config, table_name)), records)
    /\ UNCHANGED <<config, db, tx, openConns, mpc, ti, calls, fn, table_name, records,
                   drop, ri, offset, pages, requests, stmts, steps, touched,
                   loadNo, dbPre, dbDone, prev, name, snake, twice>>

\* The steps of the four pipeline functions.
StepNext ==
    \/ c_check \/ c_connect \/ c_ext \/ c_create \/ c_commit \/ c_rollback \/ c_close
    \/ g_start \/ g_request
    \/ t_transform
    \/ i_check \/ i_connect \/ i_drop \/ i_create \/ i_insert \/ i_commit
    \/ i_rollback \/ i_close

\* ------------------------------------------------------------------ calling
EntryPc(f) ==
    CASE f = "create_table_if_not_exists" -> "c_check"
      [] f = "get_airtable_data" -> "g_start"
      [] f = "transform_data" -> "t_transform"
      [] f = "insert_into_postgres" -> "i_check"

\* A call of a pipeline function: fresh locals, control at its first line.
Call(f, t, recs, d) ==
    /\ fn' = f
    /\ table_name' = t
    /\ records' = recs
    /\ drop' = d
    /\ pc' = EntryPc(f)
    /\ ri' = 1
    /\ offset' = None
    /\ pages' = EmptyChain
    /\ requests' = <<>>
    /\ ret' = <<>>
    /\ exc' = "none"
    /\ stmts' = <<>>
    /\ dbPre' = db
    /\ UNCHANGED <<config, db, tx, openConns, loadNo>>

\* -------------------------------------------------------------------- migrate
\* Line 142 / 131: a run of migrate starts.
migrate_start ==
    /\ mpc \in {"idle", "done", "failed"}
    /\ calls < MaxCalls
    /\ calls' = calls + 1
    /\ mpc' = "loop"
    /\ ti' = 1
    /\ steps' = <<>>
    /\ touched' = FALSE
    /\ dbDone' = db
    /\ UNCHANGED <<config, db, tx, openConns, pc, fn, table_name, records,
                   drop, ri, offset, pages, requests, ret, exc, stmts,
                   loadNo, dbPre, prev, name, snake, twice>>

\* Lines 132-134: the next key of config['tables'], create_table_if_not_exists.
migrate_create ==
    /\ mpc = "loop"
    /\ ti <= Len(config)
    /\ mpc' = "create"
    /\ steps' = Append(steps, <<ti, "create">>)
    /\ Call("create_table_if_not_exists", config[ti].name, <<>>, FALSE)
    /\ UNCHANGED <<ti, calls, touched, dbDone, prev, name, snake, twice>>

\* Line 136.
migrate_fetch ==
    /\ mpc = "create"
    /\ pc = "returned"
    /\ mpc' = "fetch"
    /\ steps' = Append(steps, <<ti, "fetch">>)
    /\ Call("get_airtable_data", config[ti].name, <<>>, FALSE)
    /\ UNCHANGED <<ti, calls, touched, dbDone, prev, name, snake, twice>>

\* Line 137.
migrate_transform ==
    /\ mpc = "fetch"
    /\ pc = "returned"
    /\ mpc' = "transform"
    /\ steps' = Append(steps, <<ti, "transform">>)
    /\ Call("transform_data", config[ti].name, ret, FALSE)
    /\ UNCHANGED <<ti, calls, touched, dbDone, prev, name, snake, twice>>

\* Line 138.
migrate_load ==
    /\ mpc = "transform"
    /\ pc = "returned"
    /\ mpc' = "load"
    /\ steps' = Append(steps, <<ti, "load">>)
    /\ Call("insert_into_postgres", config[ti].name, ret, TRUE)
    /\ UNCHANGED <<ti, calls, touched, dbDone, prev, name, snake, twice>>

\* Line 139, then back to line 132.
migrate_next ==
    /\ mpc = "load"
    /\ pc = "returned"
    /\ mpc' = "loop"
    /\ pc' = "idle"
    /\ ti' = ti + 1
    /\ steps' = Append(steps, <<ti, "done">>)
    /\ dbDone' = db
    /\ UNCHANGED <<config, db, tx, openConns, calls, fn, table_name, records,
                   drop, ri, offset, pages, requests, ret, exc, stmts, touched,
                   loadNo, dbPre, prev, name, snake, twice>>

\* Line 132: the keys are exhausted, migrate returns.
migrate_finish ==
    /\ mpc = "loop"
    /\ ti > Len(config)
    /\ mpc' = "done"
    /\ UNCHANGED <<config, db, tx, openConns, pc, ti, calls, fn, table_name, records,
                   drop, ri, offset, pages, requests, ret, exc, stmts, steps, touched,
                   loadNo, dbPre, dbDone, prev, name, snake, twice>>

\* Per-table isolation: the failure is dropped and the loop goes on.
migrate_raise_continue ==
    /\ mpc \in {"create", "fetch", "transform", "load"}
    /\ pc = "raised"
    /\ mpc' = "loop"
    /\ pc' = "idle"
    /\ ti' = ti + 1
    /\ UNCHANGED <<config, db, tx, openConns, calls, fn, table_name, records,
                   drop, ri, offset, pages, requests, ret, exc, stmts, steps, touched,
                   loadNo, dbPre, dbDone, prev, name, snake, twice>>

\* The failure of a step is swallowed and migrate goes on to the next step.
migrate_raise_swallow ==
    /\ mpc \in {"create", "fetch", "transform", "load"}
    /\ pc = "raised"
    /\ pc' = "returned"
    /\ UNCHANGED <<config, db, tx, openConns, mpc, ti, calls, fn, table_name, records,
                   drop, ri, offset, pages, requests, ret, exc, stmts, steps, touched,
                   loadNo, dbPre, dbDone, prev, name, snake, twice>>

\* Lines 131-139 hold no try block: an exception of a step leaves migrate.
migrate_raise ==
    /\ mpc \in {"create", "fetch", "transform", "load"}
    /\ pc = "raised"
    /\ mpc' = "failed"
    /\ pc' = "idle"
    /\ UNCHANGED <<config, db, tx, openConns, ti, calls, fn, table_name, records,
                   drop, ri, offset, pages, requests, ret, exc, stmts, steps, touched,
                   loadNo, dbPre, dbDone, prev, name, snake, twice>>

MigrateNext ==
    \/ migrate_start \/ migrate_create \/ migrate_fetch \/ migrate_transform
    \/ migrate_load \/ migrate_next \/ migrate_finish \/ migrate_raise

\* to_snake_case is not being called on its own.
NoName == name = <<>> /\ snake = <<>> /\ twice = <<>>

Init == InitCommon /\ mpc = "idle" /\ NoName

Next == MigrateNext \/ StepNext

Spec == Init /\ [][Next]_vars

\* ------------------------------------------------- the steps called directly
\* The lists of at most n elements of S.
ListsOf(S, n) == UNION {[1..k -> S] : k \in 0..n}

\* Table names a caller may pass: configured or not.
CallTables == {TblA, TblZ}

\* Raw records a caller may pass to transform_data.
RawRecords == {RawA, RawB}

\* Records a caller may pass to insert_into_postgres: two different dicts
\* with the columns of MapAB.
LoadRecords ==
    {TransformOne(MapAB, RawA, Len(MapAB)), TransformOne(MapAB, RawB, Len(MapAB))}

ThisCall == [fn |-> fn, table_name |-> table_name, drop |-> drop, exc |-> exc]

\* A caller other than migrate may call once the previous call is over.
CanCall ==
    /\ mpc = "none"
    /\ pc \in {"idle", "returned", "raised"}
    /\ calls < MaxCalls

Called ==
    /\ calls' = calls + 1
    /\ prev' = ThisCall
    /\ touched' = FALSE
    /\ UNCHANGED <<mpc, ti, steps, dbDone, name, snake, twice>>

\* create_table_if_not_exists(table_name) (line 69)
call_create ==
    /\ CanCall
    /\ \E t \in CallTables : Call("create_table_if_not_exists", t, <<>>, FALSE)
    /\ Called

\* get_airtable_data(table_name) (line 38)
call_fetch ==
    /\ CanCall
    /\ \E t \in CallTables : Call("get_airtable_data", t, <<>>, FALSE)
    /\ Called

\* transform_data(table_name, records) (line 55)
call_transform ==
    /\ CanCall
    /\ \E t \in CallTables, recs \in ListsOf(RawRecords, MaxRecs) :
           Call("transform_data", t, recs, FALSE)
    /\ Called

\* insert_into_postgres(table_name, records, drop_table_before_insert) (line 92)
call_insert ==
    /\ CanCall
    /\ \E t \in CallTables, recs \in ListsOf(LoadRecords, MaxRecs), d \in BOOLEAN :
           Call("insert_into_postgres", t, recs, d)
    /\ Called

CallNext == call_create \/ call_fetch \/ call_transform \/ call_insert

InitSteps == InitCommon /\ mpc = "none" /\ NoName

NextSteps == CallNext \/ StepNext

SpecSteps == InitSteps /\ [][NextSteps]_vars

\* ------------------------------------------- to_snake_case called on its own
\* The characters of the display names: lowercase and uppercase letters, the
\* space and the underscore.
NameChars == {"a", "b", "A", "B", " ", "_"}

CustomerOrders ==
    <<"C", "u", "s", "t", "o", "m", "e", "r", " ", "O", "r", "d", "e", "r", "s">>
AlreadySnake ==
    <<"a", "l", "r", "e", "a", "d", "y", "_", "s", "n", "a", "k", "e">>

NameInputs == ListsOf(NameChars, MaxNameLen) \cup {CustomerOrders, TblZ, AlreadySnake}

\* to_snake_case(name) (line 32)
normalize ==
    /\ mpc = "names"
    /\ pc = "idle"
    /\ snake' = to_snake_case(name)
    /\ pc' = "returned"
    /\ UNCHANGED <<config, db, tx, openConns, mpc, ti, calls, fn, table_name, records,
                   drop, ri, offset, pages, requests, ret, exc, stmts, steps, touched,
                   loadNo, dbPre, dbDone, prev, name, twice>>

\* to_snake_case applied to its own result (line 32)
normalize_again ==
    /\ mpc = "names"
    /\ pc = "returned"
    /\ twice' = to_snake_case(snake)
    /\ pc' = "renormalized"
    /\ UNCHANGED <<config, db, tx, openConns, mpc, ti, calls, fn, table_name, records,
                   drop, ri, offset, pages, requests, ret, exc, stmts, steps, touched,
                   loadNo, dbPre, dbDone, prev, name, snake>>

InitNames ==
    /\ InitCommon
    /\ mpc = "names"
    /\ name \in NameInputs
    /\ snake = <<>>
    /\ twice = <<>>

NextNames == normalize \/ normalize_again

SpecNames == InitNames /\ [][NextNames]_vars

\* ==================================================================== claims
\* C1: when insert_into_postgres returns with the error of a failed insert,
\* no table of the target store holds a row inserted by that call, the rows
\* whose inserts succeeded before the failing one included.
C1_RollbackOnInsertFailure ==
    (/\ fn = "insert_into_postgres"
     /\ pc = "raised"
     /\ \E i \in DOMAIN stmts : stmts[i] = <<"insert", FALSE>>)
    => \A id \in Idents :
           \A k \in DOMAIN db.tables[id].rows : db.tables[id].rows[k].by # loadNo

\* A load of two records whose first insert succeeded and whose second failed.
C1_Witness ==
    /\ fn = "insert_into_postgres"
    /\ pc = "raised"
    /\ Len(records) = 2
    /\ \E i \in DOMAIN stmts :
           /\ stmts[i] = <<"insert", TRUE>>
           /\ i < Len(stmts)
           /\ stmts[i + 1] = <<"insert", FALSE>>

\* C2: after two successful drop-and-recreate loads of the same table, first
\* with R1 then with R2, the table holds one row per record of R2, in order,
\* each inserted by the second load, and nothing else.
C2_DestructiveLoadReplaces ==
    (/\ fn = "insert_into_postgres" /\ pc = "returned" /\ drop
     /\ prev.fn = "insert_into_postgres" /\ prev.exc = "none" /\ prev.drop
     /\ prev.table_name = table_name)
    => LET t == db.tables[to_snake_case(table_name)]
       IN /\ t.exists
          /\ Len(t.rows) = Len(records)
          /\ \A i \in DOMAIN t.rows :
                 /\ t.rows[i].by = loadNo
                 /\ t.rows[i].vals = DictValues(records[i])

\* The second load has returned; the first left rows, and not as many as the
\* second one loads.
C2_Witness ==
    /\ fn = "insert_into_postgres" /\ pc = "returned" /\ drop
    /\ prev.fn = "insert_into_postgres" /\ prev.exc = "none" /\ prev.drop
    /\ prev.table_name = table_name
    /\ Len(records) = 1
    /\ Len(dbPre.tables[to_snake_case(table_name)].rows) = 2

\* C3: against a chain of n pages whose pages but the last each carry a
\* cursor token, get_airtable_data issues at most n requests, the first
\* without offset and each later one with the offset of the response before
\* it, and when it returns it has issued exactly n requests and returns the
\* pages' records concatenated in page order.
C3_PaginationCompleteness ==
    (/\ fn = "get_airtable_data"
     /\ \A i \in 1..(Len(pages) - 1) : Truthy(pages[i].offset))
    => /\ Len(requests) <= Len(pages)
       /\ \A i \in DOMAIN requests :
              requests[i] = IF i = 1 THEN {} ELSE {<<"offset", pages[i - 1].offset>>}
       /\ pc = "returned" =>
              /\ Len(requests) = Len(pages)
              /\ LET cat[i \in 0..Len(pages)] ==
                         IF i = 0 THEN <<>> ELSE cat[i - 1] \o pages[i].records
                 IN ret = cat[Len(pages)]

\* A fetch of three pages has returned.
C3_Witness ==
    /\ fn = "get_airtable_data"
    /\ pc = "returned"
    /\ Len(pages) = 3
    /\ \A i \in 1..2 : Truthy(pages[i].offset)
    /\ Len(ret) = 3

\* C4: a pipeline step called with a table name that has no mapping touches
\* neither store and ends with the configuration error.
C4_UnknownTableFailsFast ==
    (fn # "none" /\ NotMapping(get(config, table_name)))
    => /\ ~touched
       /\ pc # "returned"
       /\ pc = "raised" => exc = "ValueError"

\* C6: when a drop-and-recreate load fails on an insert, the target table is
\* afterwards what it was when the call began.
C6_LoadFailureRestoresPreLoadState ==
    (/\ fn = "insert_into_postgres" /\ drop
     /\ pc = "raised"
     /\ \E i \in DOMAIN stmts : stmts[i] = <<"insert", FALSE>>)
    => db.tables[to_snake_case(table_name)] = dbPre.tables[to_snake_case(table_name)]

\* The table held rows, the drop and the create went through, an insert failed.
C6_Witness ==
    /\ fn = "insert_into_postgres" /\ drop
    /\ pc = "raised"
    /\ \E i \in DOMAIN stmts : stmts[i] = <<"insert", FALSE>>
    /\ \E i \in DOMAIN stmts : stmts[i] = <<"drop", TRUE>>
    /\ dbPre.tables[to_snake_case(table_name)].rows # <<>>
    /\ db.tables[to_snake_case(table_name)].rows # <<>>

\* C5: in a run of migrate, when the configuration error for a table without
\* mapping is raised, no request to the source store and no connection to
\* the target store has been attempted in that run.
C5_ConfigErrorBeforeAnyStore ==
    (mpc # "none" /\ pc = "raised" /\ exc = "ValueError") => ~touched

\* C7 as stated: when a run of migrate is over, every configured table has
\* been attempted, whatever happened to the tables before it.
C7_PerTableIsolation ==
    mpc \in {"done", "failed"}
    => \A i \in DOMAIN config : \E k \in DOMAIN steps : steps[k] = <<i, "create">>

\* C7 as amended: migrate attempts a table only after every earlier table has
\* completed all its steps; a run that ends without failure has attempted
\* every configured table, a run that fails has not completed the table it
\* failed on.
C7_AttemptedOnlyAfterEarlierSucceeded ==
    /\ \A k \in DOMAIN steps :
           \A j \in 1..(steps[k][1] - 1) :
               \E d \in 1..(k - 1) : steps[d] = <<j, "done">>
    /\ mpc = "done" =>
           \A i \in DOMAIN config : \E k \in DOMAIN steps : steps[k] = <<i, "done">>
    /\ mpc = "failed" => ~\E k \in DOMAIN steps : steps[k] = <<ti, "done">>

\* The first of two tables failed and the run ended: the second was never attempted.
C7_Witness ==
    /\ mpc = "failed"
    /\ ti = 1
    /\ Len(config) = 2
    /\ ~\E k \in DOMAIN steps : steps[k][1] = 2

\* C8: once a step of a table has failed in migrate the run is over with that
\* exception: no step of a later table has been started, and the tables of
\* the earlier configured names hold what they held when the last table was
\* finished.
C8_FailurePropagates ==
    mpc = "failed"
    => /\ exc # "none"
       /\ pc = "idle"
       /\ \A k \in DOMAIN steps : steps[k][1] <= ti
       /\ \A j \in 1..(ti - 1) :
              db.tables[to_snake_case(config[j].name)]
                  = dbDone.tables[to_snake_case(config[j].name)]

\* The load of the second table failed after its drop went through, and the
\* first table had loaded rows.
C8_Witness ==
    /\ mpc = "failed"
    /\ ti = 2
    /\ fn = "insert_into_postgres"
    /\ \E i \in DOMAIN stmts : stmts[i] = <<"drop", TRUE>>
    /\ dbDone.tables[to_snake_case(config[1].name)].rows # <<>>

\* C9: the steps migrate starts are, in order, create, fetch, transform, load
\* and completion of the first configured table, then of the second, and so
\* on; a step is started only when the step before it has returned without
\* exception, and the function started is the one of the step, on the table
\* of the step.
C9_StepOrdering ==
    [][LET names == <<"create", "fetch", "transform", "load", "done">>
           canon(k) == <<((k - 1) \div 5) + 1, names[((k - 1) % 5) + 1]>>
           fns == [create |-> "create_table_if_not_exists", fetch |-> "get_airtable_data",
                   transform |-> "transform_data", load |-> "insert_into_postgres"]
       IN /\ \A k \in DOMAIN steps' : steps'[k] = canon(k)
          /\ Len(steps') > Len(steps) =>
                 /\ Len(steps') = Len(steps) + 1
                 /\ (Len(steps) > 0 /\ steps[Len(steps)][2] # "done")
                        => (pc = "returned" /\ exc = "none")
                 /\ steps'[Len(steps')][2] # "done" =>
                        /\ fn' = fns[steps'[Len(steps')][2]]
                        /\ table_name' = config[steps'[Len(steps')][1]].name
                        /\ pc' = EntryPc(fn')
          /\ (pc' \notin {"idle", "returned", "raised"} /\ pc \in {"idle", "returned", "raised"})
                 => Len(steps') > Len(steps)
      ]_vars

\* A run over two tables has completed all ten steps.
C9_Witness ==
    /\ mpc = "done"
    /\ Len(steps) = 10
    /\ steps[10] = <<2, "done">>

\* C10: at most one connection is open at any time, none is open outside the
\* statements of create_table_if_not_exists and insert_into_postgres between
\* connect and close, and a function that opened one has, when control is
\* back in migrate, ended it with a commit or a rollback followed by close.
C10_ScopedConnections ==
    /\ openConns <= 1
    /\ pc \in {"idle", "returned", "raised", "c_check", "c_connect", "i_check",
               "i_connect", "g_start", "g_request", "t_transform"} => openConns = 0
    /\ (/\ pc \in {"returned", "raised"}
        /\ \E i \in DOMAIN stmts : stmts[i] = <<"connect", TRUE>>)
       => /\ Len(stmts) >= 3
          /\ stmts[Len(stmts)] = <<"close", TRUE>>
          /\ stmts[Len(stmts) - 1] \in {<<"commit", TRUE>>, <<"rollback", TRUE>>}

\* A load in migrate has failed on an insert and control is about to be back
\* in migrate.
C10_Witness ==
    /\ mpc = "load"
    /\ pc = "raised"
    /\ \E i \in DOMAIN stmts : stmts[i] = <<"insert", FALSE>>
    /\ openConns = 0

\* C11: for a table with a mapping, transform_data does not raise, and it
\* returns one dict per input record, in input order, whose keys are the
\* mapping's target column names in declared order and whose value under a
\* column is the record's value for the source field mapped to it, None when
\* the record lacks the field.
C11_TransformTotalityAndOrder ==
    (fn = "transform_data" /\ ~NotMapping(get(config, table_name)))
    => LET mapping == TheMapping(get(config, table_name))
       IN /\ pc # "raised"
          /\ pc = "returned" =>
                 /\ Len(ret) = Len(records)
                 /\ \A i \in DOMAIN ret :
                        /\ Len(ret[i]) = Len(mapping)
                        /\ \A j \in DOMAIN mapping :
                               /\ ret[i][j][1] = mapping[j][2].name
                               /\ ret[i][j][2] =
                                      IF mapping[j][1] \in DOMAIN records[i].fields
                                      THEN records[i].fields[mapping[j][1]]
                                      ELSE None

\* Two records were transformed, the second lacks the first mapped field.
C11_Witness ==
    /\ fn = "transform_data"
    /\ pc = "returned"
    /\ records = <<RawA, RawB>>
    /\ ret[2] = << <<"c1", None>>, <<"c2", "z">> >>

\* C12: in a call of create_table_if_not_exists that follows a successful
\* call for the same table, the create statement can succeed although the
\* table exists, and when the call is over the target store is what the
\* first call left: the table is there, with the same columns and rows.
C12_IdempotentCreate ==
    (/\ fn = "create_table_if_not_exists"
     /\ prev.fn = "create_table_if_not_exists" /\ prev.exc = "none"
     /\ prev.table_name = table_name)
    => /\ pc = "c_create" => ENABLED (c_create /\ pc' = "c_commit")
       /\ pc \in {"returned", "raised"} => db = dbPre
       /\ pc = "returned" => db.tables[to_snake_case(table_name)].exists

\* The second of two calls for the same table has returned.
C12_Witness ==
    /\ fn = "create_table_if_not_exists"
    /\ prev.fn = "create_table_if_not_exists" /\ prev.exc = "none"
    /\ prev.table_name = table_name
    /\ pc = "returned"
    /\ \E i \in DOMAIN stmts : stmts[i] = <<"create_if_not_exists", TRUE>>
    /\ db.tables[to_snake_case(table_name)].exists

\* C13: to_snake_case maps "Customer Orders" to "customer_orders", "ID" to
\* "id", and leaves "already_snake" as it is.
C13_SnakeExamples ==
    (mpc = "names" /\ pc # "idle")
    => /\ name = CustomerOrders =>
              snake = <<"c", "u", "s", "t", "o", "m", "e", "r", "_",
                        "o", "r", "d", "e", "r", "s">>
       /\ name = TblZ => snake = <<"i", "d">>
       /\ name = AlreadySnake => snake = AlreadySnake

\* C14: applying to_snake_case to its own result changes nothing.
C14_SnakeIdempotent ==
    (mpc = "names" /\ pc = "renormalized") => twice = snake

\* A name with a space and an inner uppercase letter, normalized twice.
C14_Witness ==
    /\ mpc = "names"
    /\ pc = "renormalized"
    /\ name = <<"a", " ", "B">>
    /\ snake = <<"a", "_", "b">>
    /\ twice = snake

\* C15: a load that returns has issued, on its one connection and in this
\* order, the drop and the create (when the drop was requested), one insert
\* per record, one commit and the close, all of them successful, and the
\* table ends with the records' values as its last rows in the list's order;
\* at any point of a load a commit has been issued at most once and only
\* after as many inserts as there are records, and never once a connect, a
\* drop, a create or an insert has failed.
C15_SingleTransactionLoad ==
    fn = "insert_into_postgres"
    => LET n == Len(records)
           expected == <<"connect">>
                       \o (IF drop THEN <<"drop", "create">> ELSE <<>>)
                       \o [k \in 1..n |-> "insert"]
                       \o <<"commit", "close">>
           rows == db.tables[to_snake_case(table_name)].rows
       IN /\ pc = "returned" =>
                 /\ Len(stmts) = Len(expected)
                 /\ \A i \in DOMAIN stmts : stmts[i] = <<expected[i], TRUE>>
                 /\ Len(rows) >= n
                 /\ drop => Len(rows) = n
                 /\ \A k \in 1..n :
                        /\ rows[Len(rows) - n + k].vals = DictValues(records[k])
                        /\ rows[Len(rows) - n + k].by = loadNo
          /\ \A i \in DOMAIN stmts :
                 stmts[i][1] = "commit" =>
                     /\ Cardinality({j \in 1..(i - 1) : stmts[j] = <<"insert", TRUE>>}) = n
                     /\ \A j \in DOMAIN stmts : stmts[j][1] = "commit" => j = i
          /\ (\E i \in DOMAIN stmts : stmts[i][1] # "commit" /\ ~stmts[i][2])
                 => \A i \in DOMAIN stmts : stmts[i][1] # "commit"

\* A destructive load of two different records that returned.
C15_Witness ==
    /\ fn = "insert_into_postgres"
    /\ pc = "returned"
    /\ drop
    /\ Len(records) = 2
    /\ records[1] # records[2]
    /\ stmts = << <<"connect", TRUE>>, <<"drop", TRUE>>, <<"create", TRUE>>,
                  <<"insert", TRUE>>, <<"insert", TRUE>>, <<"commit", TRUE>>,
                  <<"close", TRUE>> >>

\* C16: after a load of migrate has returned, every record handed to it has
\* one value per mapping entry, keyed in the mapping's order by the column
\* names; the table has the mapping's columns in that same order; and the
\* k-th row stores under each column the k-th record's value for that column.
C16_PositionalBindingAlignment ==
    (mpc = "load" /\ fn = "insert_into_postgres" /\ pc = "returned")
    => LET mapping == TheMapping(get(config, table_name))
           t == db.tables[to_snake_case(table_name)]
       IN /\ Len(t.cols) = Len(mapping)
          /\ Len(t.rows) = Len(records)
          /\ \A k \in DOMAIN records :
                 /\ Len(records[k]) = Len(mapping)
                 /\ \A j \in DOMAIN mapping :
                        /\ t.cols[j] = mapping[j][2]
                        /\ records[k][j][1] = t.cols[j].name
                        /\ t.rows[k].vals[j] = records[k][j][2]

\* A migrated table of two columns whose first row holds the first record's
\* two different values, each under its own column.
C16_Witness ==
    /\ mpc = "load"
    /\ fn = "insert_into_postgres"
    /\ pc = "returned"
    /\ table_name = TblA
    /\ Len(records) >= 1
    /\ records[1] = << <<"c1", "x">>, <<"c2", "y">> >>
    /\ db.tables[to_snake_case(TblA)].rows[1].vals = <<"x", "y">>

\* C17: while a step of migrate runs, a drop has been issued only if the
\* step is the load of a table whose fetch and transform steps were taken
\* before it; and when migrate has failed in get_airtable_data or transform_data,
\* every table of the store holds the rows it held when that table's turn
\* began.
C17_DropOnlyAfterExtraction ==
    /\ (/\ mpc \in {"create", "fetch", "transform", "load"}
        /\ \E i \in DOMAIN stmts : stmts[i][1] = "drop")
           => /\ mpc = "load"
              /\ \E a, b \in DOMAIN steps :
                     /\ a < b /\ b < Len(steps)
                     /\ steps[a] = <<ti, "fetch">>
                     /\ steps[b] = <<ti, "transform">>
                     /\ steps[Len(steps)] = <<ti, "load">>
    /\ (mpc = "failed" /\ fn \in {"get_airtable_data", "transform_data"})
           => \A id \in Idents : db.tables[id].rows = dbDone.tables[id].rows

\* The second run fails while fetching its first table, which holds a row
\* of the first run.
C17_Witness ==
    /\ mpc = "failed"
    /\ fn = "get_airtable_data"
    /\ calls = 2
    /\ ti = 1
    /\ db.tables[to_snake_case(config[1].name)].rows # <<>>
    /\ db.tables[to_snake_case(config[1].name)].rows =
           dbDone.tables[to_snake_case(config[1].name)].rows

\* C18: when a run of migrate has returned, every configured table name has
\* its own table in the store, with the columns of that name's mapping and
\* with rows that were all inserted by that name's load of this run.
C18_OwnTablePerConfiguredName ==
    mpc = "done"
    => \A i \in DOMAIN config :
           LET t == db.tables[to_snake_case(config[i].name)]
           IN /\ t.exists
              /\ t.cols = Values(config[i].mapping)
              /\ \A k \in DOMAIN t.rows : t.rows[k].by = loadNo - (Len(config) - i)

\* C19: a fetch advances along the page chain with every request, also past
\* a page whose offset field is present but empty: it never asks again for
\* the first page, and so never makes more requests than the chain has
\* pages before it ends.
C19_FetchAdvancesToTheLastPage ==
    fn = "get_airtable_data"
    => /\ \A i \in 2..Len(requests) : requests[i] # {}
       /\ Len(requests) <= Len(pages)

====
